---- MODULE Spec2Model ----
(***************************************************************************)
(* Model of AudioFFTBase (src/src/AudioLibs/AudioFFT.h): the sample        *)
(* buffering, windowed-transform trigger and result extraction, driven     *)
(* through the FFTDriver interface; and of AudioSourceURL                  *)
(* (src/src/AudioTools/AudioSource.h), the URL list of the player.         *)
(*                                                                         *)
(* Spec  : the pipeline (begin, setAudioInfo, end, write).                 *)
(* SpecR : result() and resultArray<N>() over an arbitrary spectrum.       *)
(* SpecU : AudioSourceURL (begin, selectStream, nextStream,                *)
(*         previousStream, toStr).                                         *)
(***************************************************************************)
EXTENDS Integers, Sequences, FiniteSets, TLC

VARIABLES
    len,          \* AudioFFTBase::len (set once by the constructor)
    current_pos,  \* AudioFFTBase::current_pos, the fill cursor
    cfg,          \* AudioFFTBase::cfg (AudioFFTConfig)
    timestamp,    \* AudioFFTBase::timestamp
    p_driver,     \* the FFTDriver behind p_driver: [valid, prepared, filled]
    ingested,     \* complete frames written since the driver was begun
    whole,        \* every processed write() since then carried whole frames only
    transforms,   \* FFTDriver::fft() calls since the driver was begun
    callbacks,    \* cfg.callback invocations since the driver was begun
    op,           \* the last operation: its name, arguments, return value and trace
    mag,          \* the spectrum: FFTDriver::magnitude(idx)
    ret_value,    \* what result() returned
    array,        \* the caller's array handed to resultArray<N>(result)
    act_j,        \* resultArray: the loop variable j (0 when not running)
    pos,          \* AudioSourceURL::pos, the index into urlArray
    max,          \* AudioSourceURL::max, the number of URLs
    started,      \* AudioSourceURL::started
    calls,        \* the calls made on actual_stream so far, in order
    urlOp         \* the last operation on the source and the urlArray indices it read

vars == <<len, current_pos, cfg, timestamp, p_driver, ingested, whole,
          transforms, callbacks, op, mag, ret_value, array, act_j,
          pos, max, started, calls, urlOp>>

urlVars == <<pos, max, started, calls, urlOp>>

pipeVars == <<len, current_pos, cfg, timestamp, p_driver, ingested, whole,
              transforms, callbacks, op>>

resVars == <<mag, ret_value, array, act_j>>

-----------------------------------------------------------------------------
(* Bounds of the model *)

MaxLen == 4        \* window lengths 0..MaxLen are given to the constructor
MaxBytes == 8      \* byte counts 0..MaxBytes are given to write()
MaxFrames == 4     \* whole frames counted between two driver begins
MaxTime == 1       \* millis() returns 0..MaxTime
MaxChannels == 2   \* channel counts 1..MaxChannels
MaxRLen == 8       \* result queries: window lengths up to MaxRLen
MaxMag == 2        \* result queries: magnitudes 0..MaxMag
MaxN == 3          \* resultArray<N>: N in 1..MaxN
MaxUrls == 3       \* AudioSourceURL: urlArray holds 1..MaxUrls URLs
MaxInt == 7        \* AudioSourceURL: int runs from -MaxInt-1 to MaxInt
MaxCalls == 5      \* AudioSourceURL: calls on the stream that are followed

Lens == 0 .. MaxLen
BitDepths == {8, 16, 24, 32}
SampleRates == {8000}
Channels == 1 .. MaxChannels

\* AudioFFTConfig values a caller hands to begin(): channel_used names a
\* channel of the frame.
Configs ==
    { c \in [bits_per_sample : BitDepths, sample_rate : SampleRates,
             channels : Channels, channel_used : 0 .. (MaxChannels - 1),
             callback : BOOLEAN] : c.channel_used < c.channels }

\* AudioBaseInfo values handed to setAudioInfo()
Infos == [bits_per_sample : BitDepths, sample_rate : SampleRates, channels : Channels]

\* AudioFFTConfig() : channels = 2, bits_per_sample = 16, sample_rate = 44100
defaultConfig ==
    [bits_per_sample |-> 16, sample_rate |-> 44100, channels |-> 2,
     channel_used |-> 0, callback |-> FALSE]

-----------------------------------------------------------------------------
(* isPowerOfTwo(uint16_t x) : (x & (x - 1)) == 0, evaluated in int *)

\* a & b on the bit patterns a, b >= 0 (no common bit is left once one is 0)
RECURSIVE BitAnd(_, _)
BitAnd(a, b) ==
    IF a = 0 \/ b = 0 THEN 0
    ELSE (a % 2) * (b % 2) + 2 * BitAnd(a \div 2, b \div 2)

\* the low 30 bits of the two's complement int x (x - 1 is -1 for x = 0)
IntBits(x) == x % (2 ^ 30)

isPowerOfTwo(x) == BitAnd(IntBits(x % 65536), IntBits((x % 65536) - 1)) = 0

-----------------------------------------------------------------------------
(* The object during one call: the fields a handler reads and writes, and  *)
(* the trace of the calls it makes on the driver, the data and the         *)
(* callback.                                                               *)

Self ==
    [len |-> len, current_pos |-> current_pos, cfg |-> cfg,
     timestamp |-> timestamp, p_driver |-> p_driver,
     millis |-> 0,      \* what millis() returns during the call
     begins |-> 0,      \* FFTDriver::begin() calls
     sets |-> << >>,    \* positions passed to FFTDriver::setValue
     reads |-> << >>,   \* indices of dataT read
     ffts |-> 0,        \* FFTDriver::fft() calls
     runs |-> << >>,    \* what each FFTDriver::fft() call found filled
     steps |-> << >>,   \* the statements of fft() executed, in order
     stamps |-> << >>,  \* the values millis() returned
     cbLog |-> << >>]   \* what each callback invocation observed

\* cfg.callback(*this): the callback reads the pipeline it is handed
callback(s) ==
    [s EXCEPT !.steps = Append(@, "callback"),
              !.cbLog = Append(@, [current_pos |-> s.current_pos,
                                   timestamp |-> s.timestamp,
                                   ffts |-> s.ffts])]

\* fft() with the callback invoked before the transform is run
fftCallbackFirst(s) ==
    LET s0 == IF s.cfg.callback THEN callback(s) ELSE s
        s1 == [s0 EXCEPT !.ffts = @ + 1, !.steps = Append(@, "fft"),
                         !.runs = Append(@, s.p_driver.filled),
                         !.p_driver.filled = << >>]
        s2 == [s1 EXCEPT !.current_pos = 0, !.steps = Append(@, "reset")]
    IN  [s2 EXCEPT !.timestamp = s.millis, !.steps = Append(@, "timestamp"),
                   !.stamps = Append(@, s.millis)]

\* AudioFFTBase::fft()
fft(s) ==
    LET s1 == [s EXCEPT !.ffts = @ + 1,                \* p_driver->fft()
                        !.steps = Append(@, "fft"),
                        !.runs = Append(@, s.p_driver.filled),
                        !.p_driver.filled = << >>]
        s2 == [s1 EXCEPT !.current_pos = 0,
                         !.steps = Append(@, "reset")]
        s3 == [s2 EXCEPT !.timestamp = s.millis,       \* timestamp = millis()
                         !.steps = Append(@, "timestamp"),
                         !.stamps = Append(@, s.millis)]
    IN  IF s3.cfg.callback THEN callback(s3) ELSE s3

\* the loop body with the window-full test off by one (> for >=)
processFrameLate(s, j) ==
    LET s1 == [s EXCEPT !.sets = Append(@, s.current_pos),
                        !.p_driver.filled = Append(@, s.current_pos),
                        !.reads = Append(@, j + s.cfg.channel_used)]
        s2 == [s1 EXCEPT !.current_pos = @ + 1]
    IN  IF s2.current_pos > s2.len THEN fft(s2) ELSE s2

\* the body of the loop of processSamples, for loop variable j
processFrame(s, j) ==
    LET s1 == [s EXCEPT !.sets = Append(@, s.current_pos),
                        !.p_driver.filled = Append(@, s.current_pos),
                        !.reads = Append(@, j + s.cfg.channel_used)]
        s2 == [s1 EXCEPT !.current_pos = @ + 1]
    IN  IF s2.current_pos >= s2.len THEN fft(s2) ELSE s2

RECURSIVE processLoop(_, _, _)
processLoop(s, j, samples) ==
    IF j < samples
    THEN processLoop(processFrame(s, j), j + s.cfg.channels, samples)
    ELSE s

\* AudioFFTBase::processSamples<T>(data, byteCount), sizeofT = sizeof(T)
processSamples(s, sizeofT, byteCount) ==
    processLoop(s, 0, byteCount \div sizeofT)

\* sizeof(int16_t), sizeof(int24_t), sizeof(int32_t); int24_t is 3 bytes
\* wide, as availableForWrite() (bits_per_sample / 8) takes it to be
sizeofT(bits) == bits \div 8

\* write() without the isValid() test
writeUnchecked(s, byteCount) ==
    [ret |-> byteCount,
     self |-> IF s.cfg.bits_per_sample \in {16, 24, 32}
              THEN processSamples(s, sizeofT(s.cfg.bits_per_sample), byteCount)
              ELSE s]

\* AudioFFTBase::write(data, len): [ret, self]
write(s, byteCount) ==
    IF s.p_driver.valid
    THEN [ret |-> byteCount,
          self |-> IF s.cfg.bits_per_sample \in {16, 24, 32}
                   THEN processSamples(s, sizeofT(s.cfg.bits_per_sample), byteCount)
                   ELSE s]
    ELSE [ret |-> 0, self |-> s]

\* begin() that also clears the timestamp
beginClearsTime(s, info, ok) ==
    LET s1 == [s EXCEPT !.cfg = info]
    IN  IF ~isPowerOfTwo(s1.len)
        THEN [ret |-> FALSE, self |-> s1]
        ELSE [ret |-> ok,
              self |-> [s1 EXCEPT !.p_driver = [valid |-> ok, prepared |-> TRUE,
                                                 filled |-> << >>],
                                  !.begins = @ + 1,
                                  !.timestamp = 0,
                                  !.current_pos = 0]]

\* AudioFFTBase::begin(info); ok is what FFTDriver::isValid() answers after
\* FFTDriver::begin(len)
begin(s, info, ok) ==
    LET s1 == [s EXCEPT !.cfg = info]
    IN  IF ~isPowerOfTwo(s1.len)
        THEN [ret |-> FALSE, self |-> s1]
        ELSE [ret |-> ok,
              self |-> [s1 EXCEPT !.p_driver = [valid |-> ok, prepared |-> TRUE,
                                                 filled |-> << >>],
                                  !.begins = @ + 1,
                                  !.current_pos = 0]]

\* setAudioInfo() that begins with a fresh configuration
setAudioInfoFresh(s, info, ok) ==
    begin(s, [defaultConfig EXCEPT !.bits_per_sample = info.bits_per_sample,
                                   !.sample_rate = info.sample_rate,
                                   !.channels = info.channels], ok)

\* AudioFFTBase::setAudioInfo(info)
setAudioInfo(s, info, ok) ==
    begin(s, [s.cfg EXCEPT !.bits_per_sample = info.bits_per_sample,
                           !.sample_rate = info.sample_rate,
                           !.channels = info.channels], ok)

\* AudioFFTBase::availableForWrite()
availableForWrite == (cfg.bits_per_sample \div 8) * len

\* AudioFFTBase::size()
size == len

\* AudioFFTBase::resultTime()
resultTime == timestamp

-----------------------------------------------------------------------------
(* Operations of the pipeline *)

NoOp == [name |-> "new", ret |-> 0, byteCount |-> 0, begins |-> 0, sets |-> << >>,
         reads |-> << >>, ffts |-> 0, runs |-> << >>, steps |-> << >>,
         stamps |-> << >>, cbLog |-> << >>]

\* the fields of the object after a call
Store(s) ==
    /\ current_pos' = s.current_pos
    /\ cfg' = s.cfg
    /\ timestamp' = s.timestamp
    /\ p_driver' = s.p_driver

\* the counters restart when the driver is begun
Restart(r) ==
    IF r.self.begins > 0
    THEN /\ ingested' = 0
         /\ whole' = TRUE
         /\ transforms' = 0
         /\ callbacks' = 0
    ELSE UNCHANGED <<ingested, whole, transforms, callbacks>>

Begin ==
    \E info \in Configs, ok \in BOOLEAN :
        LET r == begin(Self, info, ok)
        IN  /\ Store(r.self)
            /\ Restart(r)
            /\ op' = [NoOp EXCEPT !.name = "begin", !.ret = IF r.ret THEN 1 ELSE 0,
                                  !.begins = r.self.begins]
            /\ UNCHANGED <<len, resVars, urlVars>>

SetAudioInfo ==
    \E info \in Infos, ok \in BOOLEAN :
        LET r == setAudioInfo(Self, info, ok)
        IN  /\ Store(r.self)
            /\ Restart(r)
            /\ op' = [NoOp EXCEPT !.name = "setAudioInfo", !.begins = r.self.begins]
            /\ UNCHANGED <<len, resVars, urlVars>>

\* AudioFFTBase::end(): p_driver->end().  The counters follow one life of
\* the driver, from its begin to its end.
End ==
    /\ p_driver' = [p_driver EXCEPT !.valid = FALSE]
    /\ op' = [NoOp EXCEPT !.name = "end"]
    /\ ingested' = 0
    /\ whole' = TRUE
    /\ transforms' = 0
    /\ callbacks' = 0
    /\ UNCHANGED <<len, current_pos, cfg, timestamp, resVars, urlVars>>

\* the complete frames in byteCount bytes of the configured format
FramesIn(byteCount) == byteCount \div ((cfg.bits_per_sample \div 8) * cfg.channels)

WholeFrames(byteCount) == byteCount % ((cfg.bits_per_sample \div 8) * cfg.channels) = 0

\* write(data, byteCount), called at time t: millis() is read by fft()
\* alone and never runs backwards, so t is no earlier than the last
\* timestamp.  The counters are kept while every processed write carried
\* whole frames; op keeps the byte count of a call that found the engine
\* valid.
Write ==
    \E byteCount \in 0 .. MaxBytes, t \in timestamp .. MaxTime :
        LET r == write([Self EXCEPT !.millis = t], byteCount)
            processed == p_driver.valid /\ cfg.bits_per_sample \in {16, 24, 32}
            counted == whole /\ (processed => WholeFrames(byteCount))
        IN  /\ (processed /\ counted) => ingested + FramesIn(byteCount) <= MaxFrames
            /\ Store(r.self)
            /\ whole' = counted
            /\ ingested' = IF ~counted THEN 0
                           ELSE IF processed THEN ingested + FramesIn(byteCount)
                           ELSE ingested
            /\ transforms' = IF counted THEN transforms + r.self.ffts ELSE 0
            /\ callbacks' = IF counted THEN callbacks + Len(r.self.cbLog) ELSE 0
            /\ op' = [name |-> "write", ret |-> r.ret,
                      byteCount |-> IF p_driver.valid THEN byteCount ELSE 0,
                      begins |-> 0, sets |-> r.self.sets, reads |-> r.self.reads,
                      ffts |-> r.self.ffts, runs |-> r.self.runs,
                      steps |-> r.self.steps,
                      stamps |-> r.self.stamps, cbLog |-> r.self.cbLog]
            /\ UNCHANGED <<len, resVars, urlVars>>

NoSpectrum == << >>

\* no AudioSourceURL is in use
NoSource ==
    /\ pos = 0
    /\ max = 0
    /\ started = FALSE
    /\ calls = << >>
    /\ urlOp = [name |-> "none", accessed |-> << >>]
NoResult == [bin |-> 0, magnitude |-> 0, frequency |-> [num |-> 0, den |-> 1]]

\* AudioFFTBase(fft_len, driver): the driver is not begun yet
Init ==
    /\ len \in Lens
    /\ current_pos = 0
    /\ cfg = defaultConfig
    /\ timestamp = 0
    /\ p_driver = [valid |-> FALSE, prepared |-> FALSE, filled |-> << >>]
    /\ ingested = 0
    /\ whole = TRUE
    /\ transforms = 0
    /\ callbacks = 0
    /\ op = NoOp
    /\ mag = NoSpectrum
    /\ ret_value = NoResult
    /\ array = << >>
    /\ act_j = 0
    /\ NoSource

Next == Begin \/ SetAudioInfo \/ End \/ Write

Spec == Init /\ [][Next]_vars

-----------------------------------------------------------------------------
(* Result extraction: result() and resultArray<N>().  Both read only len,  *)
(* cfg.sample_rate and the magnitudes of the driver, so SpecR starts from  *)
(* every window length begin() accepts and every spectrum, and applies     *)
(* them.  AudioFFTResult values are records [bin, magnitude, frequency];   *)
(* arrays are indexed from 0 as in the source.  resultArray<N> is modelled *)
(* with the member and function names the rest of the class defines        *)
(* (magnitude for fft, InsertSorted for insertSorted).                     *)

RLens == {n \in 0 .. MaxRLen : isPowerOfTwo(n)}
Mags == 0 .. MaxMag
\* sample rates: two audio rates, and 2^24 + 1, the first int a float
\* cannot hold
RRates == {8000, 44100, 16777217}

\* what an AudioFFTResult field nobody has written may hold
Garbage == {0, 1}

\* resultArray: "initialize to negative value"
Sentinel == -1000000

\* AudioFFTBase::magnitude(idx): p_driver->magnitude(idx)
magnitude(idx) == mag[idx]

\* the spacing of the floats around n >= 0: a float has a significand of
\* 24 bits, so it is 1 below 2^24 and doubles with every further bit
RECURSIVE Ulp(_)
Ulp(n) == IF n < 2 ^ 24 THEN 1 ELSE 2 * Ulp(n \div 2)

\* the float nearest to the integer n >= 0, ties to the even significand:
\* static_cast<float>(int), and the rounding of an exact product
Float(n) ==
    LET u == Ulp(n)
        q == n \div u
        r == n % u
        up == 2 * r > u \/ (2 * r = u /\ q % 2 = 1)
    IN  (IF up THEN q + 1 ELSE q) * u

\* a * b of two floats of integer value
FloatMul(a, b) == Float(a * b)

\* a / b of a float a of integer value by a float b that is a power of two,
\* as the fraction [num, den]: such a quotient is exact.  den = 0 is the
\* quotient by zero (inf, or NaN for 0 / 0).
FloatDiv(a, b) == [num |-> a, den |-> b]

\* frequency() dividing first, in int
frequencyDivFirst(bin) ==
    IF len = 0 THEN [num |-> bin * cfg.sample_rate, den |-> 0]
    ELSE [num |-> Float((bin \div len) * cfg.sample_rate), den |-> 1]

\* AudioFFTBase::frequency(bin): static_cast<float>(bin) * cfg.sample_rate / len,
\* where sample_rate and len are converted to float for the operations
frequency(bin) ==
    FloatDiv(FloatMul(Float(bin), Float(cfg.sample_rate)), Float(len))

\* the loop body of result() with >= for >
resultStepLast(ret, j) ==
    IF magnitude(j) >= ret.magnitude
    THEN [ret EXCEPT !.magnitude = magnitude(j), !.bin = j]
    ELSE ret

\* the loop body of result(), for loop variable j
resultStep(ret, j) ==
    IF magnitude(j) > ret.magnitude
    THEN [ret EXCEPT !.magnitude = magnitude(j), !.bin = j]
    ELSE ret

RECURSIVE resultLoop(_, _)
resultLoop(ret, j) ==
    IF j < len \div 2 THEN resultLoop(resultStep(ret, j), j + 1) ELSE ret

\* AudioFFTBase::result(); ret_value.frequency is written last
result ==
    LET r == resultLoop([bin |-> 0, magnitude |-> 0,
                         frequency |-> [num |-> 0, den |-> 1]], 1)
    IN  [r EXCEPT !.frequency = frequency(r.bin)]

\* InsertSorted, slot j: "shift existing values right", "insert new value"
shiftInsert(res, j, tmp) ==
    [k \in DOMAIN res |-> IF k = j THEN tmp
                          ELSE IF k > j THEN res[k - 1]
                          ELSE res[k]]

\* the loop body of InsertSorted with >= for >
insertSlotGE(res, tmp, j) ==
    IF tmp.magnitude >= res[j].magnitude THEN shiftInsert(res, j, tmp) ELSE res

\* the loop body of InsertSorted, for loop variable j
insertSlot(res, tmp, j) ==
    IF tmp.magnitude > res[j].magnitude THEN shiftInsert(res, j, tmp) ELSE res

RECURSIVE insertLoop(_, _, _)
insertLoop(res, tmp, j) ==
    IF j < Cardinality(DOMAIN res)
    THEN insertLoop(insertSlot(res, tmp, j), tmp, j + 1)
    ELSE res

\* AudioFFTBase::InsertSorted<N>(result, tmp)
InsertSorted(res, tmp) == insertLoop(res, tmp, 0)

\* resultArray: the candidate of bin j
act(j) == [magnitude |-> magnitude(j), bin |-> j, frequency |-> frequency(j)]

\* result()
Result ==
    /\ act_j = 0
    /\ ret_value' = result
    /\ array' = << >>
    /\ op' = [NoOp EXCEPT !.name = "result"]
    /\ UNCHANGED <<len, current_pos, cfg, timestamp, p_driver, ingested,
                   whole, transforms, callbacks, mag, act_j, urlVars>>

\* resultArray<N>(result), up to its second loop: the caller's array holds
\* anything, and every magnitude is set to the sentinel
ResultArrayInit ==
    \E N \in 1 .. MaxN :
        \E g \in [0 .. (N - 1) -> Garbage] :
            /\ act_j = 0
            /\ array' = [j \in 0 .. (N - 1) |->
                            [bin |-> g[j], magnitude |-> Sentinel,
                             frequency |-> [num |-> g[j], den |-> 1]]]
            /\ act_j' = 1
            /\ ret_value' = NoResult
            /\ op' = [NoOp EXCEPT !.name = "resultArray"]
            /\ UNCHANGED <<len, current_pos, cfg, timestamp, p_driver,
                           ingested, whole, transforms, callbacks, mag,
                           urlVars>>

\* resultArray: one pass of "find top n values"
ResultArrayInsert ==
    /\ act_j >= 1
    /\ act_j < len \div 2
    /\ array' = InsertSorted(array, act(act_j))
    /\ act_j' = act_j + 1
    /\ UNCHANGED <<pipeVars, mag, ret_value, urlVars>>

\* resultArray: the loop ends and the call returns
ResultArrayReturn ==
    /\ act_j >= 1
    /\ ~(act_j < len \div 2)
    /\ act_j' = 0
    /\ UNCHANGED <<pipeVars, mag, ret_value, array, urlVars>>

\* a started pipeline, of any sample rate, whose driver holds any spectrum
InitR ==
    /\ len \in RLens
    /\ current_pos = 0
    /\ cfg \in {[defaultConfig EXCEPT !.sample_rate = r] : r \in RRates}
    /\ timestamp = 0
    /\ p_driver = [valid |-> TRUE, prepared |-> TRUE, filled |-> << >>]
    /\ ingested = 0
    /\ whole = TRUE
    /\ transforms = 0
    /\ callbacks = 0
    /\ op = NoOp
    /\ mag \in [0 .. (len \div 2 - 1) -> Mags]
    /\ ret_value = NoResult
    /\ array = << >>
    /\ act_j = 0
    /\ NoSource

NextR == Result \/ ResultArrayInit \/ ResultArrayInsert \/ ResultArrayReturn

SpecR == InitR /\ [][NextR]_vars

-----------------------------------------------------------------------------
(* AudioSourceURL: a list of max URLs played through one URL stream.  The  *)
(* handlers work on the fields of the source and trace the indices of      *)
(* urlArray they read and the calls they make on actual_stream.            *)

\* the values of an int
Ints == (-MaxInt - 1) .. MaxInt

\* a + b in int; a sum outside int is undefined behaviour and yields ub
IntAdd(a, b, ub) == IF a + b \in Ints THEN a + b ELSE ub

Source ==
    [pos |-> pos, max |-> max, started |-> started, calls |-> calls,
     accessed |-> << >>]    \* the indices i of the reads urlArray[i]

\* selectStream(int) without the end() of the stream that is open
selectStreamNoEnd(s, idx) ==
    LET p0 == IF idx < 0 THEN 0 ELSE idx
        p1 == IF p0 >= s.max THEN s.max - 1 ELSE p0
    IN  [s EXCEPT !.pos = p1,
                  !.accessed = @ \o <<p1, p1>>,
                  !.calls = Append(@, "begin"),
                  !.started = TRUE]

\* AudioSourceURL::selectStream(int idx)
selectStream(s, idx) ==
    LET p0 == IF idx < 0 THEN 0 ELSE idx
        p1 == IF p0 >= s.max THEN s.max - 1 ELSE p0
        s1 == [s EXCEPT !.pos = p1,
                        !.accessed = Append(@, p1)]         \* LOGI urlArray[pos]
        s2 == IF s1.started THEN [s1 EXCEPT !.calls = Append(@, "end")] ELSE s1
    IN  [s2 EXCEPT !.accessed = Append(@, s2.pos),          \* begin(urlArray[pos], mime)
                   !.calls = Append(@, "begin"),
                   !.started = TRUE]

\* AudioSourceURL::nextStream(int offset)
nextStream(s, offset, ub) ==
    LET p0 == IntAdd(s.pos, offset, ub)
        p1 == IF p0 < 0 \/ p0 >= s.max THEN 0 ELSE p0
        s1 == [s EXCEPT !.pos = p1, !.accessed = Append(@, p1)]
    IN  selectStream(s1, s1.pos)

\* AudioSourceURL::previousStream(int offset)
previousStream(s, offset, ub) ==
    LET p0 == IntAdd(s.pos, -offset, ub)
        p1 == IF p0 < 0 \/ p0 >= s.max THEN s.max - 1 ELSE p0
        s1 == [s EXCEPT !.pos = p1, !.accessed = Append(@, p1)]
    IN  selectStream(s1, s1.pos)

\* AudioSourceURL::selectStream(const char* path)
selectStreamPath(s) ==
    LET s1 == IF s.started THEN [s EXCEPT !.calls = Append(@, "end")] ELSE s
    IN  [s1 EXCEPT !.calls = Append(@, "begin"), !.started = TRUE]

\* AudioSourceURL::toStr(): return urlArray[pos]
toStr(s) == [s EXCEPT !.accessed = Append(@, s.pos)]

\* the fields of the source after the call name
StoreSource(s, name) ==
    /\ pos' = s.pos
    /\ started' = s.started
    /\ calls' = s.calls
    /\ urlOp' = [name |-> name, accessed |-> s.accessed]

\* a call that selects a stream is followed while the trace has room
Room == Len(calls) + 2 <= MaxCalls

\* AudioSourceURL::begin()
SourceBegin ==
    /\ StoreSource([Source EXCEPT !.pos = 0], "begin")
    /\ UNCHANGED <<max, pipeVars, resVars>>

SelectStream ==
    \E idx \in Ints :
        /\ Room
        /\ StoreSource(selectStream(Source, idx), "selectStream")
        /\ UNCHANGED <<max, pipeVars, resVars>>

NextStream ==
    \E offset \in Ints, ub \in Ints :
        /\ Room
        /\ StoreSource(nextStream(Source, offset, ub), "nextStream")
        /\ UNCHANGED <<max, pipeVars, resVars>>

PreviousStream ==
    \E offset \in Ints, ub \in Ints :
        /\ Room
        /\ StoreSource(previousStream(Source, offset, ub), "previousStream")
        /\ UNCHANGED <<max, pipeVars, resVars>>

SelectStreamPath ==
    /\ Room
    /\ StoreSource(selectStreamPath(Source), "selectStreamPath")
    /\ UNCHANGED <<max, pipeVars, resVars>>

ToStr ==
    /\ StoreSource(toStr(Source), "toStr")
    /\ UNCHANGED <<max, pipeVars, resVars>>

\* AudioSourceURL(urlStream, urlArray, mime, startPos): max = N,
\* pos = startPos - 1; started is false and no stream call was made
InitU ==
    /\ len = 0
    /\ current_pos = 0
    /\ cfg = defaultConfig
    /\ timestamp = 0
    /\ p_driver = [valid |-> FALSE, prepared |-> FALSE, filled |-> << >>]
    /\ ingested = 0
    /\ whole = TRUE
    /\ transforms = 0
    /\ callbacks = 0
    /\ op = NoOp
    /\ mag = NoSpectrum
    /\ ret_value = NoResult
    /\ array = << >>
    /\ act_j = 0
    /\ max \in 1 .. MaxUrls
    /\ \E startPos \in Ints, ub \in Ints : pos = IntAdd(startPos, -1, ub)
    /\ started = FALSE
    /\ calls = << >>
    /\ urlOp = [name |-> "new", accessed |-> << >>]

NextU ==
    \/ SourceBegin
    \/ SelectStream
    \/ NextStream
    \/ PreviousStream
    \/ SelectStreamPath
    \/ ToStr

SpecU == InitU /\ [][NextU]_vars

-----------------------------------------------------------------------------
(* Properties of the pipeline, checked under Spec *)

Supported == cfg.bits_per_sample \in {16, 24, 32}

\* n is 2^k for some k
IsPowerOf2(n) == \E k \in 0 .. 16 : n = 2 ^ k

\* a pipeline of a proper window length whose engine is valid
Started == p_driver.valid /\ IsPowerOf2(len)

\* one pass of fft(): run, reset, timestamp, then the callback if configured
FftPass == IF cfg.callback THEN <<"fft", "reset", "timestamp", "callback">>
           ELSE <<"fft", "reset", "timestamp">>

RECURSIVE Repeat(_, _)
Repeat(seq, n) == IF n = 0 THEN << >> ELSE seq \o Repeat(seq, n - 1)

\* C1: after a successful begin() with a supported bit depth, k complete
\* frames ingested through any split into whole-frame write() calls have run
\* floor(k / len) transforms and as many callbacks (none without a callback)
\* and leave the cursor at k mod len; a write() that ran a transform leaves
\* resultTime() at the value millis() returned last.  (len >= 1: the
\* quotient is defined.)
C1_WindowCount ==
    (p_driver.valid /\ Supported /\ whole /\ len >= 1) =>
        /\ transforms = ingested \div len
        /\ callbacks = (IF cfg.callback THEN transforms ELSE 0)
        /\ current_pos = ingested % len
        /\ (op.name = "write" /\ op.ffts > 0) =>
              timestamp = op.stamps[Len(op.stamps)]

\* exactly len = 4 frames have run one transform and one callback, in the
\* write() that completed the window, and resultTime() moved from 0 to 1
C1_Witness ==
    /\ p_driver.valid /\ Supported /\ whole
    /\ len = 4 /\ ingested = len
    /\ op.name = "write" /\ op.ffts = 1
    /\ transforms = 1 /\ callbacks = 1
    /\ op.stamps = <<1>> /\ timestamp = 1

\* a single write() larger than one window ran two transforms
C1_WitnessMany ==
    /\ p_driver.valid /\ Supported /\ whole
    /\ len = 2 /\ op.name = "write" /\ op.ffts = 2 /\ Len(op.sets) = 4

\* C3: with bits_per_sample outside {16, 24, 32}, write() returns 0 and
\* processes nothing: no setValue, no transform, no callback.
C3_UnsupportedReturnsZero ==
    (op.name = "write" /\ Started /\ ~Supported) =>
        /\ op.ret = 0
        /\ op.sets = << >>
        /\ op.ffts = 0
        /\ op.cbLog = << >>

\* C4: write() passes floor(byteCount / (bytes_per_sample * channels))
\* samples to the engine, each read from a complete leading frame of the
\* buffer (so none from a trailing partial frame or from outside the buffer).
C4_CompleteFramesOnly ==
    (op.name = "write" /\ Started /\ Supported
       /\ cfg.channel_used < cfg.channels) =>
        LET frames == op.byteCount \div ((cfg.bits_per_sample \div 8) * cfg.channels)
        IN  /\ Len(op.sets) = frames
            /\ \A i \in 1 .. Len(op.reads) : op.reads[i] < frames * cfg.channels

\* C5: with a window length that is no power of two begin() returns false,
\* FFTDriver::begin is never called and write() consumes 0 bytes and runs no
\* transform; and the length check lets only powers of two through.
C5_PowerOfTwoOnly ==
    /\ ~IsPowerOf2(len) =>
          /\ ~p_driver.prepared
          /\ (op.name = "begin" => op.ret = 0)
          /\ (op.name = "write" => op.ret = 0 /\ op.ffts = 0)
    /\ p_driver.prepared => IsPowerOf2(len)

\* C6: a begin() that fails with a configuration error (it returns false
\* at the length check, before the engine is touched) leaves the stored
\* configuration, the cursor and the engine as they were.
C6_FailedBeginKeepsState ==
    [][(op'.name = "begin" /\ op'.ret = 0 /\ op'.begins = 0) =>
          /\ cfg' = cfg
          /\ current_pos' = current_pos
          /\ p_driver' = p_driver]_vars

\* C7: every window-full event runs the engine, resets the cursor, records
\* the timestamp and then invokes the callback, if one is configured: the
\* i-th callback of a write() sees i completed transforms, the cursor at 0
\* and the new timestamp; there is one callback per transform, and none
\* without a configured callback.
C7_CallbackOrder ==
    op.name = "write" =>
        /\ op.steps = Repeat(FftPass, op.ffts)
        /\ Len(op.stamps) = op.ffts
        /\ Len(op.cbLog) = (IF cfg.callback THEN op.ffts ELSE 0)
        /\ \A i \in 1 .. Len(op.cbLog) :
              /\ op.cbLog[i].ffts = i
              /\ op.cbLog[i].current_pos = 0
              /\ op.cbLog[i].timestamp = op.stamps[i]

\* a write() that filled two windows, with a callback, at time 1
C7_Witness ==
    /\ op.name = "write" /\ cfg.callback
    /\ op.ffts = 2 /\ Len(op.cbLog) = 2
    /\ len >= 2 /\ timestamp = 1

\* C10: whenever write() processes samples, channel_used < channels.
C10_ChannelUsedInFrame ==
    (op.name = "write" /\ Started /\ op.sets # << >>) =>
        cfg.channel_used < cfg.channels

\* C11: while the engine is not valid (never prepared, prepare failed, or
\* after end()), write() returns 0, makes no setValue or fft call, invokes no
\* callback and leaves the cursor and the timestamp as they were.
C11_InvalidEngineNoOp ==
    [][(op'.name = "write" /\ ~p_driver.valid) =>
          /\ op'.ret = 0
          /\ op'.sets = << >>
          /\ op'.ffts = 0
          /\ op'.cbLog = << >>
          /\ current_pos' = current_pos
          /\ timestamp' = timestamp
          /\ p_driver' = p_driver]_vars

\* a write() after end(), in the middle of a window of a supported format,
\* returned 0 and left the cursor where it was
C11_Witness ==
    /\ op.name = "write" /\ op.ret = 0 /\ op.sets = << >>
    /\ ~p_driver.valid /\ p_driver.prepared
    /\ Supported /\ len = 4 /\ current_pos = 2

\* C12: no operation changes the window length size() returns, and
\* setAudioInfo() leaves channel_used and the callback as they were and the
\* cursor at 0.
C12_SetAudioInfoKeepsWindow ==
    [][/\ size' = size
       /\ op'.name = "setAudioInfo" =>
             /\ cfg'.channel_used = cfg.channel_used
             /\ cfg'.callback = cfg.callback
             /\ current_pos' = 0]_vars

\* setAudioInfo() on a started pipeline of length 4 that uses channel 1 and
\* has a callback: both are kept, the sample rate is the new one
C12_Witness ==
    /\ op.name = "setAudioInfo" /\ op.begins = 1
    /\ size = 4 /\ current_pos = 0
    /\ cfg.channel_used = 1 /\ cfg.callback
    /\ cfg.sample_rate = 8000

\* C13: resultTime() changes only in a write() that completes a transform
\* (so begin(), setAudioInfo(), end() and a write() that fills no window
\* leave it), and it never decreases.
C13_ResultTime ==
    [][/\ resultTime' # resultTime => (op'.name = "write" /\ op'.ffts > 0)
       /\ resultTime' >= resultTime]_vars

\* a begin() after a transform at time 1: resultTime() is still 1
C13_Witness ==
    /\ op.name = "begin" /\ op.begins = 1
    /\ resultTime = 1

\* C17: availableForWrite() is bytes_per_sample * len, and a write() of
\* exactly that many bytes into an empty window runs exactly one transform,
\* at its last frame.
C17_AvailableFillsWindow ==
    /\ availableForWrite = sizeofT(cfg.bits_per_sample) * len
    /\ (op.name = "write" /\ Started /\ Supported
          /\ op.byteCount = availableForWrite
          /\ op.sets # << >> /\ op.sets[1] = 0) =>
            /\ op.ffts = 1
            /\ current_pos = 0

\* the positions 0 .. n-1 in order
Positions(n) == [k \in 1 .. n |-> k - 1]

InWindow(p) == 0 <= p /\ p < len

\* C15: once the pipeline is started the cursor is in [0, len) between the
\* operations and when the callback runs, every setValue() position is in
\* [0, len), and the cursor is changed only by write() and by a begin()
\* that succeeds, which sets it to 0.
C15_CursorInWindow ==
    /\ [](/\ p_driver.valid => InWindow(current_pos)
          /\ \A i \in DOMAIN op.sets : InWindow(op.sets[i])
          /\ \A i \in DOMAIN op.cbLog : InWindow(op.cbLog[i].current_pos))
    /\ [][current_pos' # current_pos =>
             \/ op'.name = "write"
             \/ /\ op'.name \in {"begin", "setAudioInfo"}
                /\ p_driver'.valid
                /\ current_pos' = 0]_vars

\* C16: every FFTDriver::fft() call finds exactly the positions 0 .. len-1
\* set, in order, since the later of the last fft() and the last
\* FFTDriver::begin(len).
C16_TransformOverFullWindow ==
    \A i \in DOMAIN op.runs : op.runs[i] = Positions(len)

-----------------------------------------------------------------------------
(* Properties of the result extraction, checked under SpecR *)

\* the bins result() and resultArray() scan
Scanned == 1 .. (len \div 2 - 1)

\* the greatest magnitude of the scanned bins
MaxScanned == CHOOSE m \in {mag[b] : b \in Scanned} : \A b \in Scanned : mag[b] <= m

\* the lowest scanned bin of the greatest magnitude
FirstMax == CHOOSE b \in Scanned :
                /\ mag[b] = MaxScanned
                /\ \A c \in Scanned : mag[c] = MaxScanned => b <= c

Slots == DOMAIN array

\* resultArray() has returned
Returned == op.name = "resultArray" /\ act_j = 0

\* C2: for a spectrum of at least N scanned bins, after resultArray<N>() no
\* bin is in two slots, and the slots hold the N largest bins: each slot
\* holds a scanned bin with its magnitude, and no bin left out is greater
\* than a bin kept.
C2_SingleInsertion ==
    (Returned /\ Cardinality(Scanned) >= Cardinality(Slots)) =>
        /\ \A i, j \in Slots : i # j => array[i].bin # array[j].bin
        /\ \A i \in Slots : /\ array[i].bin \in Scanned
                             /\ array[i].magnitude = mag[array[i].bin]
        /\ \A b \in Scanned \ {array[i].bin : i \in Slots} :
              \A i \in Slots : mag[b] <= array[i].magnitude

\* C8 as stated: with len/2 > 1, result() returns a bin >= 1, the lowest
\* scanned bin of the greatest magnitude, with the magnitude of that bin.
C8_DominantSeededByBin1 ==
    (op.name = "result" /\ len \div 2 > 1) =>
        /\ ret_value.bin >= 1
        /\ ret_value.bin = FirstMax
        /\ ret_value.magnitude = mag[ret_value.bin]

\* C8 as amended: with len/2 > 1, result() returns the lowest scanned bin of
\* the greatest magnitude, with that magnitude, when some scanned bin has a
\* magnitude above 0; when all are 0 it returns bin 0 with magnitude 0.
C8_Dominant ==
    (op.name = "result" /\ len \div 2 > 1) =>
        IF MaxScanned > 0
        THEN /\ ret_value.bin = FirstMax
             /\ ret_value.bin >= 1
             /\ ret_value.magnitude = mag[ret_value.bin]
        ELSE /\ ret_value.bin = 0
             /\ ret_value.magnitude = 0

\* result() on a spectrum whose greatest magnitude is at bins 2 and 3
\* returned bin 2
C8_Witness ==
    /\ op.name = "result" /\ len = 8
    /\ mag[1] = 1 /\ mag[2] = 2 /\ mag[3] = 2
    /\ ret_value.bin = 2 /\ ret_value.magnitude = 2

\* the slots that hold a candidate
Entries == {i \in Slots : array[i].magnitude # Sentinel}

\* the float f is exactly the integer n
IsInteger(f, n) == f.den # 0 /\ f.num = n * f.den

\* the bins frequency() is asked for: those of a window, and one more
Bins == 0 .. (MaxRLen \div 2)

\* result().frequency is frequency(result().bin), and every entry written by
\* resultArray() has the frequency of its bin
FrequencyOfBin ==
    /\ op.name = "result" => ret_value.frequency = frequency(ret_value.bin)
    /\ \A i \in Entries : array[i].frequency = frequency(array[i].bin)

Ordered ==
    \A i, j \in Slots : i < j =>
        /\ array[i].magnitude >= array[j].magnitude
        /\ (i \in Entries /\ j \in Entries
              /\ array[i].magnitude = array[j].magnitude) =>
                array[i].bin <= array[j].bin

\* C9 (ties): a sorted insert leaves every entry of the candidate's
\* magnitude in its slot.
TiesStay ==
    ResultArrayInsert =>
        \A i \in Entries :
            array[i].magnitude = mag[act_j] => array'[i] = array[i]

-----------------------------------------------------------------------------
(* Properties of the URL source, checked under SpecU *)

Selects == {"selectStream", "nextStream", "previousStream", "selectStreamPath"}

\* the begin() calls in a trace of stream calls
Begins(log) == Cardinality({i \in DOMAIN log : log[i] = "begin"})

\* C18: every read urlArray[i], toStr() included, has 0 <= i < max, and
\* begin(), selectStream(int), nextStream() and previousStream() leave pos
\* in that range.
C18_IndexInRange ==
    /\ \A i \in DOMAIN urlOp.accessed :
          0 <= urlOp.accessed[i] /\ urlOp.accessed[i] < max
    /\ urlOp.name \in {"begin", "selectStream", "nextStream", "previousStream"} =>
          (0 <= pos /\ pos < max)

\* C19: the calls on the stream are begin, end, begin, ... starting with
\* begin, and every call that selects a stream makes exactly one begin().
C19_BeginEndAlternate ==
    /\ [](\A i \in DOMAIN calls :
             calls[i] = IF i % 2 = 1 THEN "begin" ELSE "end")
    /\ [][urlOp'.name \in Selects => Begins(calls') = Begins(calls) + 1]_vars

\* three selections, the last by previousStream(): the second and the third
\* ended the stream of the one before
C19_Witness ==
    /\ urlOp.name = "previousStream"
    /\ calls = <<"begin", "end", "begin", "end", "begin">>
    /\ started

=============================================================================
